---- MODULE Spec2Model ----
(***************************************************************************)
(* A model of specim/specfuncs/echelle1d.py: the Ech1d collection of       *)
(* Spec1d order spectra, its constructor (from a list or from a            *)
(* multi-extension file), plot_all and save_multi.                         *)
(*                                                                         *)
(* Wavelengths are integers in units of 10^3, so that the 1.e12 start      *)
(* value of wmin in plot_all is 10^9 and fits TLC's integers; only         *)
(* comparisons are made on them.                                           *)
(***************************************************************************)
EXTENDS Integers, Sequences, FiniteSets, TLC

\* ------------------------------------------------------------------ bounds
MaxLen == 3      \* longest speclist handed to the constructor
MaxOrders == 2   \* most orders of a plotted collection
MaxRows == 2     \* most rows of a plotted order spectrum

\* ------------------------------------------------------- values and inputs
\* Python's None for an optional argument, and a supplied argument
None == [none |-> TRUE]
Some(x) == [none |-> FALSE, v |-> x]

\* a Spec1d instance: a table with a wavelength and a flux column
MkSpec1d(wav, flux) == [type |-> "Spec1d", wav |-> wav, flux |-> flux]

\* anything that is not a Spec1d instance
NotSpec1d == [type |-> "str"]

\* the Spec1d instances the list constructor and the exporter are tried on
Spec1dPool == { MkSpec1d(<<4, 5>>, <<1, 2>>), MkSpec1d(<<5, 6, 7>>, <<3, 1, 2>>) }

\* the elements a speclist may hold
ListElems == Spec1dPool \cup {NotSpec1d}

\* the speclist arguments: every list of at most MaxLen elements
SpecLists == UNION { [1..n -> ListElems] : n \in 0..MaxLen }

\* the wavelengths of plotted spectra: below 0., ordinary ones, and one above
\* the 1.e12 start value of wmin
WavVals == {-1, 4, 5, 6, 2000000000}

\* the plotted spectra: wavelength columns of 1..MaxRows non-decreasing values
PlotSpectra ==
  { MkSpec1d(w, [i \in DOMAIN w |-> 1]) :
      w \in { v \in UNION { [1..n -> WavVals] : n \in 1..MaxRows } :
                \A i \in 1..(Len(v) - 1) : v[i] <= v[i + 1] } }

\* the plotted collections: every sequence of at most MaxOrders such spectra
PlotCollections == UNION { [1..n -> PlotSpectra] : n \in 0..MaxOrders }

\* records (HDUs) of a multi-extension FITS file
PrimaryHDU == [type |-> "PrimaryHDU"]
TableHDU(wav, flux) == [type |-> "BinTableHDU", wav |-> wav, flux |-> flux]
ImageHDU == [type |-> "ImageHDU"]

\* no file at a path (a FITS file always has at least one record)
NoFile == << >>

\* the files that exist before any call: a well-formed file of two orders, and
\* a file whose second extension holds no spectrum table
InFits == <<PrimaryHDU, TableHDU(<<6>>, <<9>>), TableHDU(<<4, 5>>, <<1, 2>>)>>
BadFits == <<PrimaryHDU, TableHDU(<<4, 5>>, <<1, 2>>), ImageHDU, TableHDU(<<6>>, <<9>>)>>

\* the output roots handed to save_multi and the paths handed to echfile
OutRoots == {"out"}
EchFiles == {"out.fits", "in.fits", "bad.fits", "missing.fits"}
OutFormats == {"multitab", "text", "bogus"}

VARIABLES
  ech,        \* the collection yielded by the latest constructor call, or None
  fs,         \* the filesystem: path -> sequence of records, or NoFile
  hduOpen,    \* the file handle of the latest constructor call: "none", "open", "closed"
  exc,        \* the exception the latest call raised, or "none"
  out,        \* the lines the latest call printed
  call,       \* the latest call and its arguments
  exported,   \* the collection of the latest multitab export, or None
  xlim,       \* the horizontal limits of the shared plot, or None
  plotcalls   \* per order, the arguments plot_all gave to plot/smooth and mark_lines

vars == <<ech, fs, hduOpen, exc, out, call, exported, xlim, plotcalls>>

\* -------------------------------------------------------------- constructor
\* isinstance(spec, ss.Spec1d)
IsSpec1dAlways(spec) == TRUE
IsSpec1d(spec) == spec.type = "Spec1d"

\* for spec in speclist: check, then self.append(spec); n elements are done
RECURSIVE ListLoopPrepend(_, _, _)
ListLoopPrepend(speclist, n, self) ==
  IF n = Len(speclist)
  THEN [exc |-> "none", self |-> self, out |-> << >>]
  ELSE IF ~IsSpec1d(speclist[n + 1])
       THEN [exc |-> "TypeError", self |-> self,
             out |-> <<"", "With speclist option the list must contain Spec1d instances", "">>]
       ELSE ListLoopPrepend(speclist, n + 1, <<speclist[n + 1]>> \o self)

RECURSIVE ListLoop(_, _, _)
ListLoop(speclist, n, self) ==
  IF n = Len(speclist)
  THEN [exc |-> "none", self |-> self, out |-> << >>]
  ELSE IF ~IsSpec1d(speclist[n + 1])
       THEN [exc |-> "TypeError", self |-> self,
             out |-> <<"", "With speclist option the list must contain Spec1d instances", "">>]
       ELSE ListLoop(speclist, n + 1, Append(self, speclist[n + 1]))

\* Spec1d(hdu=...) of the collaborator: a table record gives a Spec1d with the
\* record's columns, any other record raises
Spec1dAccepts(h) == h.type = "BinTableHDU"
Spec1dFromHdu(h) == MkSpec1d(h.wav, h.flux)

\* hdu[i], 0-based as in the source
HduAt(hdu, i) == hdu[i + 1]

\* range(1, len(hdu)): first index and (exclusive) end
RangeStartZero(hdu) == 0
RangeStart(hdu) == 1
RangeStop(hdu) == Len(hdu)

\* for i in range(1, len(hdu)): spec = Spec1d(hdu=hdu[i]); self.append(spec)
RECURSIVE FileLoop(_, _, _)
FileLoop(hdu, i, self) ==
  IF i >= RangeStop(hdu)
  THEN [exc |-> "none", self |-> self]
  ELSE IF ~Spec1dAccepts(HduAt(hdu, i))
       THEN [exc |-> "Spec1dError", self |-> self]
       ELSE FileLoop(hdu, i + 1, Append(self, Spec1dFromHdu(HduAt(hdu, i))))

\* Ech1d.__init__: the exception raised, the object under construction, the
\* lines printed and the state of the file handle when the call ends
Ech1dInit(speclist, echfile, verbose, files) ==
  IF speclist # None
  THEN LET r == ListLoop(speclist.v, 0, << >>)
       IN  [exc |-> r.exc, self |-> r.self, out |-> r.out, handle |-> "none"]
  ELSE IF echfile # None
  THEN LET msg == IF verbose THEN <<"Opening echelle spectrum file: " \o echfile.v>> ELSE << >>
       IN  IF files[echfile.v] = NoFile
           THEN [exc |-> "IOError", self |-> << >>, out |-> msg, handle |-> "none"]
           ELSE LET hdu == files[echfile.v]
                    r == FileLoop(hdu, RangeStart(hdu), << >>)
                IN  [exc |-> r.exc, self |-> r.self, out |-> msg, handle |-> "open"]
  ELSE [exc |-> "none", self |-> << >>,
        out |-> <<"", "NOTE: filelist option is not implemented for input", "">>,
        handle |-> "none"]

\* ---------------------------------------------------------------- save_multi
\* Table(spec): the columns of the spectrum as a plain table
TableOfNoFlux(spec) == [type |-> "Table", wav |-> spec.wav, flux |-> [i \in DOMAIN spec.wav |-> 0]]
TableOf(spec) == [type |-> "Table", wav |-> spec.wav, flux |-> spec.flux]

\* pf.table_to_hdu(table)
TableToHdu(t) == TableHDU(t.wav, t.flux)

\* [phdu] + [pf.table_to_hdu(Table(spec)) for spec in self]
HduListOfNoPrimary(self) == [k \in 1..Len(self) |-> TableToHdu(TableOf(self[k]))]
HduListOf(self) == <<PrimaryHDU>> \o [k \in 1..Len(self) |-> TableToHdu(TableOf(self[k]))]

\* '%s.fits' % outroot
OutFile(outroot) == outroot \o ".fits"

\* hdulist.writeto(outfile, overwrite=True)
WriteToAppend(files, outfile, hdulist) ==
  [files EXCEPT ![outfile] = IF files[outfile] = NoFile THEN hdulist ELSE files[outfile] \o Tail(hdulist)]
WriteTo(files, outfile, hdulist) == [files EXCEPT ![outfile] = hdulist]

\* Ech1d.save_multi: the filesystem afterwards, the lines printed, the exception
SaveMultiResText(self, outroot, outformat, files) ==
  IF outformat \in {"multitab", "text"}
  THEN [files |-> WriteTo(files, OutFile(outroot), HduListOf(self)), out |-> << >>, exc |-> "none"]
  ELSE [files |-> files, out |-> <<"", "Not yet implemented yet", "">>, exc |-> "none"]
SaveMultiRes(self, outroot, outformat, files) ==
  IF outformat = "multitab"
  THEN [files |-> WriteTo(files, OutFile(outroot), HduListOf(self)), out |-> << >>, exc |-> "none"]
  ELSE [files |-> files, out |-> <<"", "Not yet implemented yet", "">>, exc |-> "none"]

\* ------------------------------------------------------------------ plot_all
\* spec['wav'].min() and spec['wav'].max()
WavMin(spec) == CHOOSE x \in {spec.wav[i] : i \in DOMAIN spec.wav} :
                  \A i \in DOMAIN spec.wav : x <= spec.wav[i]
WavMax(spec) == CHOOSE x \in {spec.wav[i] : i \in DOMAIN spec.wav} :
                  \A i \in DOMAIN spec.wav : x >= spec.wav[i]

\* len(spec): the number of rows of the spectrum's table
SpecLen(spec) == Len(spec.wav)

\* the start values of wmin and wmax
WminStart == 1000000000
WmaxStart == 0

\* the loop of plot_all after count orders: title and showz are the loop's
\* variables, calls the arguments handed to each order so far
RECURSIVE PlotLoop(_, _, _, _, _, _, _, _, _)
PlotLoop(self, count, title, showz, wmin, wmax, calls, z, smo) ==
  IF count = Len(self)
  THEN [xlim |-> <<wmin, wmax>>, calls |-> calls]
  ELSE LET spec == self[count + 1]
           islast == count = SpecLen(spec) - 1
           title1 == IF islast
                     THEN (IF title = "None" THEN "Extracted Spectrum" ELSE title)
                     ELSE "False"
           showz1 == islast
           rec == [method |-> IF smo # None THEN "smooth" ELSE "plot",
                   title |-> title1,
                   marked |-> z # None,
                   showz |-> showz1,
                   usesmooth |-> smo # None]
           wmin1 == IF WavMin(spec) < wmin THEN WavMin(spec) ELSE wmin
           wmax1 == IF WavMax(spec) > wmax THEN WavMax(spec) ELSE wmax
       IN  PlotLoop(self, count + 1, title1, showz1, wmin1, wmax1,
                    Append(calls, rec), z, smo)

\* Ech1d.plot_all: the limits handed to plt.xlim and the per-order calls
PlotAllRes(self, title, z, showz, smo) ==
  PlotLoop(self, 0, title, showz, WminStart, WmaxStart, << >>, z, smo)

\* ------------------------------------------------------------------ actions
plotvars == <<xlim, plotcalls>>

Init ==
  /\ ech = None
  /\ fs = [p \in EchFiles |-> IF p = "in.fits" THEN InFits
                             ELSE IF p = "bad.fits" THEN BadFits ELSE NoFile]
  /\ hduOpen = "none"
  /\ exc = "none"
  /\ out = << >>
  /\ call = [op |-> "none"]
  /\ exported = None
  /\ xlim = None
  /\ plotcalls = << >>

\* e = Ech1d(speclist=..., echfile=..., verbose=...)
Construct ==
  \E speclist \in {None} \cup {Some(l) : l \in SpecLists},
     echfile \in {None} \cup {Some(p) : p \in EchFiles},
     verbose \in BOOLEAN :
    /\ speclist # None =>
         /\ verbose
         /\ echfile = None \/ (echfile = Some("in.fits") /\ Len(speclist.v) <= 1)
    /\ LET r == Ech1dInit(speclist, echfile, verbose, fs)
       IN  /\ ech' = IF r.exc = "none" THEN Some(r.self) ELSE None
           /\ exc' = r.exc
           /\ out' = r.out
           /\ hduOpen' = r.handle
    /\ call' = [op |-> "__init__", speclist |-> speclist, echfile |-> echfile,
                verbose |-> verbose]
    /\ UNCHANGED <<fs, exported, plotvars>>

\* e.save_multi(outroot, outformat)
SaveMulti ==
  \E outroot \in OutRoots, outformat \in OutFormats :
    /\ ech # None
    /\ LET r == SaveMultiRes(ech.v, outroot, outformat, fs)
       IN  /\ fs' = r.files
           /\ exc' = r.exc
           /\ out' = r.out
    /\ exported' = IF outformat = "multitab" THEN ech ELSE exported
    /\ call' = [op |-> "save_multi", outroot |-> outroot, outformat |-> outformat,
                existed |-> (fs[OutFile(outroot)] # NoFile)]
    /\ UNCHANGED <<ech, hduOpen, plotvars>>

Next == Construct \/ SaveMulti

Spec == Init /\ [][Next]_vars

\* a collection of plotted spectra is at hand
InitPlot ==
  /\ \E c \in PlotCollections : ech = Some(c)
  /\ fs = [p \in EchFiles |-> NoFile]
  /\ hduOpen = "none"
  /\ exc = "none"
  /\ out = << >>
  /\ call = [op |-> "none"]
  /\ exported = None
  /\ xlim = None
  /\ plotcalls = << >>

\* e.plot_all(title=..., z=..., showz=..., smo=...)
PlotAll ==
  \E title \in {"None", "My Title"}, z \in {None, Some(1)},
     showz \in BOOLEAN, smo \in {None, Some(3)} :
    /\ ech # None
    /\ LET r == PlotAllRes(ech.v, title, z, showz, smo)
       IN  /\ xlim' = Some(r.xlim)
           /\ plotcalls' = r.calls
    /\ exc' = "none"
    /\ out' = << >>
    /\ call' = [op |-> "plot_all", title |-> title, z |-> z, showz |-> showz, smo |-> smo]
    /\ UNCHANGED <<ech, fs, hduOpen, exported>>

NextPlot == PlotAll

SpecPlot == InitPlot /\ [][NextPlot]_vars

\* ------------------------------------------------------------------- claims
\* the latest call was the constructor with a speclist / with only an echfile
ListCall == call.op = "__init__" /\ call.speclist # None
FileCall == call.op = "__init__" /\ call.speclist = None /\ call.echfile # None

\* the latest call was save_multi in the combined format
MultitabCall == call.op = "save_multi" /\ call.outformat = "multitab"

\* a file whose record 0 is a primary record and whose other records are tables
WellFormed(f) ==
  /\ f # NoFile
  /\ f[1].type = "PrimaryHDU"
  /\ \A k \in 2..Len(f) : f[k].type = "BinTableHDU"

\* C1: constructing from a list of Spec1d instances yields a collection of the
\* same length holding the same elements in the same order.
C1_ListPreserved ==
  (ListCall /\ \A i \in DOMAIN call.speclist.v : call.speclist.v[i].type = "Spec1d")
    => /\ exc = "none"
       /\ ech # None
       /\ Len(ech.v) = Len(call.speclist.v)
       /\ \A i \in DOMAIN call.speclist.v : ech.v[i] = call.speclist.v[i]

C1_Witness ==
  /\ ListCall
  /\ Len(call.speclist.v) = 2
  /\ call.speclist.v[1] # call.speclist.v[2]
  /\ ech = Some(call.speclist.v)

\* C2: a speclist holding an element that is not a Spec1d instance makes the
\* constructor raise TypeError, and the caller obtains no collection.
C2_BadElementFails ==
  (ListCall /\ \E i \in DOMAIN call.speclist.v : call.speclist.v[i].type # "Spec1d")
    => /\ exc = "TypeError"
       /\ ech = None

C2_Witness ==
  /\ ListCall
  /\ Len(call.speclist.v) = 3
  /\ call.speclist.v[1].type = "Spec1d"
  /\ call.speclist.v[2].type = "Spec1d"
  /\ call.speclist.v[3].type # "Spec1d"
  /\ exc = "TypeError"
  /\ ech = None

\* C3: constructing from a well-formed file of N+1 records yields N entities,
\* entity k built from record k+1, record 0 never turned into an entity.
C3_FileLoaded ==
  (FileCall /\ WellFormed(fs[call.echfile.v]))
    => /\ exc = "none"
       /\ ech # None
       /\ Len(ech.v) = Len(fs[call.echfile.v]) - 1
       /\ \A k \in 1..Len(ech.v) :
            /\ ech.v[k].type = "Spec1d"
            /\ ech.v[k].wav = fs[call.echfile.v][k + 1].wav
            /\ ech.v[k].flux = fs[call.echfile.v][k + 1].flux

C3_Witness ==
  /\ FileCall
  /\ call.echfile = Some("in.fits")
  /\ ech # None
  /\ Len(ech.v) = 2
  /\ ech.v[1].wav = <<6>>
  /\ ech.v[2].wav = <<4, 5>>

\* C4: save_multi in the multitab format writes '<outroot>.fits' with N+1
\* records: the primary record, then the table of each order in collection order.
C4_ExportRecords ==
  MultitabCall
    => LET f == fs[OutFile(call.outroot)]
       IN  /\ Len(f) = Len(ech.v) + 1
           /\ f[1] = PrimaryHDU
           /\ \A k \in 1..Len(ech.v) :
                /\ f[k + 1].type = "BinTableHDU"
                /\ f[k + 1].wav = ech.v[k].wav
                /\ f[k + 1].flux = ech.v[k].flux

C4_Witness ==
  /\ MultitabCall
  /\ Len(ech.v) = 2
  /\ ech.v[1] # ech.v[2]
  /\ Len(fs["out.fits"]) = 3

C7_Overwrite ==
  (MultitabCall /\ call.existed)
    => /\ exc = "none"
       /\ fs[OutFile(call.outroot)] =
            <<PrimaryHDU>> \o [k \in 1..Len(ech.v) |-> TableHDU(ech.v[k].wav, ech.v[k].flux)]

\* the file existed, held more records than this export writes, and is replaced
C7_Witness ==
  /\ MultitabCall
  /\ call.existed
  /\ Len(ech.v) = 1
  /\ Len(fs["out.fits"]) = 2
  /\ fs["out.fits"] # InFits

C9_HandleReleased ==
  (FileCall /\ fs[call.echfile.v] # NoFile) => hduOpen = "closed"

\* every wavelength value of every order of a collection
AllWavs(self) == UNION { {self[k].wav[i] : i \in DOMAIN self[k].wav} : k \in DOMAIN self }

\* C6: after plot_all the horizontal limits are exactly the minimum and the
\* maximum wavelength over all orders of the (non-empty) collection.
C6_LimitsAreMinMax ==
  (call.op = "plot_all" /\ Len(ech.v) >= 1)
    => /\ xlim # None
       /\ xlim.v[1] \in AllWavs(ech.v)
       /\ xlim.v[2] \in AllWavs(ech.v)
       /\ \A w \in AllWavs(ech.v) : xlim.v[1] <= w /\ w <= xlim.v[2]

\* C10: in plot_all over N >= 1 orders the last order receives the title (the
\* caller's, or 'Extracted Spectrum') and showz = True, every earlier order
\* receives title = False and showz = False.
C10_TitleOnLastOnly ==
  (call.op = "plot_all" /\ Len(ech.v) >= 1)
    => LET N == Len(ech.v)
       IN  /\ Len(plotcalls) = N
           /\ plotcalls[N].title =
                (IF call.title = "None" THEN "Extracted Spectrum" ELSE call.title)
           /\ plotcalls[N].marked => plotcalls[N].showz
           /\ \A k \in 1..(N - 1) :
                /\ plotcalls[k].title = "False"
                /\ plotcalls[k].marked => ~plotcalls[k].showz

====
